---- MODULE Spec2Model ----
(***************************************************************************)
(* Model of the webauthn-rs attestation CA registry (attestation-ca) and   *)
(* of the device catalog tool (device-catalog-tool): the reconciliation of *)
(* the FIDO MDS feed with the enrichment data, the authority projection    *)
(* and the quirk projection.                                               *)
(***************************************************************************)
EXTENDS Integers, Sequences, FiniteSets, TLC

VARIABLES
    \* ---- attestation-ca: AttestationCaList and the last call on it
    cas,            \* AttestationCaList.cas: key id -> AttestationCa
    last,           \* the last call: its name, its argument and what it returned
    \* ---- attestation-ca: one run of AttestationCaList::from_iter
    iter,           \* the (certificate, aaguid) pairs handed to from_iter
    fi_pos,         \* how many pairs the for loop has consumed
    fi_cas,         \* from_iter's local `cas` map
    fi_pc,          \* "loop" | "done" (the list is returned) | "panicked"
    \* ---- device-catalog-tool: one run of main
    command,        \* opt.commands: "GenerateDs" | "GenerateQuirks"
    disk_feed,      \* the fido2 entries of the FIDO MDS file
    disk_enrichment,\* the device.json records under hw/
    pc,             \* where main is
    enrichment_data,\* Enrichment.devices once loaded
    fido_mds,       \* FidoMds.fido2 once loaded
    aaguid_todo,    \* try_from: the part of aaguid_set the for loop has not visited
    devices,        \* try_from: the local `devices` vector
    enriched_mds,   \* the Result of EnrichedMds::try_from
    device_statements, \* the Mds built by Into<Mds>
    quirks,         \* the Quirks map built by Into<Quirks>
    q_pos,          \* Into<Quirks>: how many devices the for loop has consumed
    output          \* what write_output left in the output file

regVars == <<cas, last>>
fiVars == <<iter, fi_pos, fi_cas, fi_pc>>
toolVars == <<command, disk_feed, disk_enrichment, pc, enrichment_data, fido_mds,
              aaguid_todo, devices, enriched_mds, device_statements,
              quirks, q_pos, output>>
vars == <<cas, last, iter, fi_pos, fi_cas, fi_pc, command, disk_feed,
          disk_enrichment, pc, enrichment_data, fido_mds, aaguid_todo, devices, enriched_mds,
          device_statements, quirks, q_pos, output>>

\* ------------------------------------------------------------------------
\* Generic helpers
\* ------------------------------------------------------------------------

\* Option<T>: None is the empty sequence, Some(x) the one-element sequence.
None == <<>>
Some(x) == <<x>>

EmptyMap == [k \in {} |-> {}]

Range(s) == {s[i] : i \in DOMAIN s}

SeqsUpTo(S, n) == UNION {[1..k -> S] : k \in 0..n}

\* The least element of a set of integers: where a BTreeSet iteration starts.
MinOf(S) == CHOOSE x \in S : \A y \in S : x <= y

\* ------------------------------------------------------------------------
\* attestation-ca
\* ------------------------------------------------------------------------

\* AAGUIDs the registry's allow-lists are built from.
RegAaguids == {"u1", "u2"}

\* The DER encodings of the certificates in play. "derX" is a certificate
\* whose digest cannot be computed.
Ders == {"derA", "derB", "derX"}

\* An x509::X509 value: its DER encoding and which in-memory object it is
\* (two X509 objects may carry the same encoding).
X509s == [der : Ders, obj : {1, 2}]

\* SHA-256 over the DER encoding: one key id per encoding (collision free),
\* an error for the certificate that cannot be digested.
Sha256Table == [d \in Ders |-> CASE d = "derA" -> "kid-5f"
                                 [] d = "derB" -> "kid-c3"
                                 [] OTHER -> "none"]

Undigestible == {"derX"}

\* x509::X509::digest(MessageDigest::sha256()): Ok(kid) or Err(ErrorStack).
X509Digest(ca) ==
    IF ca.der \in Undigestible
    THEN [ok |-> FALSE, kid |-> "none"]
    ELSE [ok |-> TRUE, kid |-> Sha256Table[ca.der]]

\* AttestationCa { ca, aaguids }
AttestationCas == [ca : X509s, aaguids : SUBSET RegAaguids]

\* AttestationCa::get_kid
GetKid(att_ca) == X509Digest(att_ca.ca)

\* BTreeMap::insert(key, value) on a map held as a function: the new map.
MapInsert(m, k, v) ==
    [j \in DOMAIN m \cup {k} |-> IF j = k THEN v ELSE m[j]]

\* BTreeMap::insert's return value: the value displaced, if any.
MapDisplaced(m, k) == IF k \in DOMAIN m THEN Some(m[k]) ELSE None

\* Faulty variant of InsertCall: an existing entry keeps its certificate and has the
\* new allow-list merged into its own (what from_iter does).
InsertCallMerging(m, att_ca) ==
    LET d == GetKid(att_ca) IN
    IF ~d.ok
    THEN [cas |-> m, ok |-> FALSE, ret |-> None]
    ELSE [cas |-> IF d.kid \in DOMAIN m
                  THEN MapInsert(m, d.kid,
                         [ca |-> m[d.kid].ca,
                          aaguids |-> m[d.kid].aaguids \cup att_ca.aaguids])
                  ELSE MapInsert(m, d.kid, att_ca),
          ok |-> TRUE, ret |-> MapDisplaced(m, d.kid)]

\* Faulty variant of InsertCall: the entry is filed before the digest's error is
\* looked at.
InsertCallDirty(m, att_ca) ==
    LET d == GetKid(att_ca) IN
    [cas |-> MapInsert(m, d.kid, att_ca), ok |-> d.ok,
     ret |-> IF d.ok THEN MapDisplaced(m, d.kid) ELSE None]

\* AttestationCaList::insert(att_ca) on the map m: `?` on get_kid returns the
\* error before the map is touched; otherwise self.cas.insert(dgst, att_ca)
\* and Ok(the entry displaced).  [cas: the map afterwards, ok, ret]
InsertCall(m, att_ca) ==
    LET d == GetKid(att_ca) IN
    IF ~d.ok
    THEN [cas |-> m, ok |-> FALSE, ret |-> None]
    ELSE [cas |-> MapInsert(m, d.kid, att_ca), ok |-> TRUE,
          ret |-> MapDisplaced(m, d.kid)]

\* A caller invokes insert on the list.
Insert(att_ca) ==
    LET r == InsertCall(cas, att_ca) IN
    /\ cas' = r.cas
    /\ last' = [op |-> "insert", arg |-> Some(att_ca), ok |-> r.ok, ret |-> r.ret]
    /\ UNCHANGED <<fiVars, toolVars>>

InsertAny == \E att_ca \in AttestationCas : Insert(att_ca)

\* AttestationCaList::default(): the empty list, no call made yet.
RegistryInit ==
    /\ cas = EmptyMap
    /\ last = [op |-> "default", arg |-> None, ok |-> TRUE, ret |-> None]

\* ---- from_iter ----------------------------------------------------------

\* Longest (certificate, aaguid) stream handed to from_iter.
MaxPairs == 3

Pairs == X509s \X RegAaguids

\* Faulty variant of FromIterBody: a pair whose key is already there installs its own
\* certificate in the entry (the allow-list is still extended).
FromIterBodyReplacing(m, ca, aaguid, kid) ==
    IF kid \notin DOMAIN m
    THEN MapInsert(m, kid, [ca |-> ca, aaguids |-> {aaguid}])
    ELSE [m EXCEPT ![kid] = [ca |-> ca, aaguids |-> @.aaguids \cup {aaguid}]]

\* Faulty variant of FromIterBody: every pair files a fresh entry, displacing the
\* one already there (what insert does).
FromIterBodyOverwriting(m, ca, aaguid, kid) ==
    MapInsert(m, kid, [ca |-> ca, aaguids |-> {aaguid}])

\* One pass of from_iter's loop body over the local map m for a pair whose
\* digest is kid: a new entry with a singleton allow-list when the key is
\* unseen, else the aaguid added to the entry already there.
FromIterBody(m, ca, aaguid, kid) ==
    IF kid \notin DOMAIN m
    THEN MapInsert(m, kid, [ca |-> ca, aaguids |-> {aaguid}])
    ELSE [m EXCEPT ![kid].aaguids = @ \cup {aaguid}]

\* from_iter as a function of its stream: Ok with the map built by running
\* the loop body over the pairs in order, or a panic at the first pair whose
\* digest fails.  [ok, cas]
RECURSIVE FromIterFrom(_, _, _)
FromIterFrom(m, s, i) ==
    IF i > Len(s) THEN [ok |-> TRUE, cas |-> m]
    ELSE LET d == X509Digest(s[i][1]) IN
         IF ~d.ok THEN [ok |-> FALSE, cas |-> EmptyMap]
         ELSE FromIterFrom(FromIterBody(m, s[i][1], s[i][2], d.kid), s, i + 1)

FromIter(s) == FromIterFrom(EmptyMap, s, 1)

\* One iteration of `for (ca, aaguid) in iter`: unwrap() panics on a digest
\* error, and the local map is dropped with the frame.
FromIterStep ==
    /\ fi_pc = "loop"
    /\ fi_pos < Len(iter)
    /\ LET p == iter[fi_pos + 1]
           d == X509Digest(p[1])
       IN  IF d.ok
           THEN /\ fi_cas' = FromIterBody(fi_cas, p[1], p[2], d.kid)
                /\ fi_pos' = fi_pos + 1
                /\ fi_pc' = "loop"
           ELSE /\ fi_cas' = EmptyMap
                /\ fi_pos' = fi_pos
                /\ fi_pc' = "panicked"
    /\ UNCHANGED <<iter, regVars, toolVars>>

\* The iterator is exhausted: AttestationCaList { cas } is returned.
FromIterReturn ==
    /\ fi_pc = "loop"
    /\ fi_pos = Len(iter)
    /\ fi_pc' = "done"
    /\ UNCHANGED <<iter, fi_pos, fi_cas, regVars, toolVars>>

FromIterInit ==
    /\ iter \in SeqsUpTo(Pairs, MaxPairs)
    /\ fi_pos = 0
    /\ fi_cas = EmptyMap
    /\ fi_pc = "loop"

FromIterIdle ==
    /\ iter = <<>>
    /\ fi_pos = 0
    /\ fi_cas = EmptyMap
    /\ fi_pc = "idle"

\* ---- the constructors of AttestationCaList ------------------------------

\* Longest stream handed to from_iter when a list is built and then used.
MaxBuildPairs == 2

\* PEM inputs: three that parse to a certificate, one that does not parse.
PemInputs == {"pemA", "pemB", "pemX", "junk"}

\* x509::X509::from_pem(data): Ok(a new X509 object) or Err.
X509FromPem(data) ==
    CASE data = "pemA" -> [ok |-> TRUE, ca |-> [der |-> "derA", obj |-> 1]]
      [] data = "pemB" -> [ok |-> TRUE, ca |-> [der |-> "derB", obj |-> 1]]
      [] data = "pemX" -> [ok |-> TRUE, ca |-> [der |-> "derX", obj |-> 1]]
      [] OTHER -> [ok |-> FALSE, ca |-> [der |-> "derX", obj |-> 1]]

\* AttestationCa::try_from(&[u8]): the parsed certificate, no AAGUID listed.
AttestationCaFromPem(data) ==
    LET x == X509FromPem(data) IN
    [ok |-> x.ok, att_ca |-> [ca |-> x.ca, aaguids |-> {}]]

\* AttestationCaList::try_from(AttestationCa): insert into a default list;
\* `?` returns insert's error.  [ok, cas]
ListFromCa(att_ca) ==
    LET r == InsertCall(EmptyMap, att_ca) IN [ok |-> r.ok, cas |-> r.cas]

\* AttestationCaList::try_from(&[u8]): parse, then insert into a default
\* list; `?` returns either error.  [ok, cas]
ListFromPem(data) ==
    LET a == AttestationCaFromPem(data) IN
    IF ~a.ok THEN [ok |-> FALSE, cas |-> EmptyMap] ELSE ListFromCa(a.att_ca)

\* A caller builds a list from one AttestationCa and, on Ok, goes on with it.
BuildFromCa ==
    \E att_ca \in AttestationCas :
       LET r == ListFromCa(att_ca) IN
       /\ cas' = IF r.ok THEN r.cas ELSE cas
       /\ last' = [op |-> "try_from_ca", arg |-> Some(att_ca), ok |-> r.ok,
                   ret |-> None]
       /\ UNCHANGED <<fiVars, toolVars>>

\* A caller builds a list from PEM bytes and, on Ok, goes on with it.
BuildFromPem ==
    \E data \in PemInputs :
       LET r == ListFromPem(data) IN
       /\ cas' = IF r.ok THEN r.cas ELSE cas
       /\ last' = [op |-> "try_from_pem", arg |-> None, ok |-> r.ok,
                   ret |-> None]
       /\ UNCHANGED <<fiVars, toolVars>>

\* A caller collects a stream into a list and, unless from_iter panicked,
\* goes on with it.
BuildFromIter ==
    \E s \in SeqsUpTo(Pairs, MaxBuildPairs) :
       LET r == FromIter(s) IN
       /\ cas' = IF r.ok THEN r.cas ELSE cas
       /\ last' = [op |-> "from_iter", arg |-> None, ok |-> r.ok, ret |-> None]
       /\ UNCHANGED <<fiVars, toolVars>>

\* ------------------------------------------------------------------------
\* device-catalog-tool: the data
\* ------------------------------------------------------------------------

\* AAGUIDs, ordered as Uuid orders them. 2 and 3 stand for AAGUIDs the
\* filter in try_from lets through, 1 for any other AAGUID.
Aaguids == {1, 2, 3}

\* The AAGUIDs try_from's filter keeps.
HackKeys == {2, 3}

\* Most records the feed and the enrichment data hold together.
MaxRecords == 3

\* Most device records of the enrichment data in a generate-quirks run.
MaxQuirkDevices == 3

\* A fido2 entry of the feed: aaguid, description, attestation_root_certificates.
FeedDevices ==
    [aaguid : Aaguids, description : {"Token"},
     attestation_root_certificates : {<<"C1">>, <<"C1", "C2">>, <<"C2", "C2">>}]

\* proto::Sku
Sku(cas_) == [attestation_cas |-> cas_]

\* proto::Device records of a generate-ds run (images are never read).
DsDevices ==
    {[aaguid |-> a, mds_link |-> l, display_name |-> "Local",
      quirks |-> qs[1], skus |-> qs[2]] :
        a \in Aaguids, l \in {"Extend", "Clone"},
        qs \in {<<{}, <<>>>>,
                <<{"q1"}, <<Sku(<<"C3">>), Sku(<<"C1">>)>>>>}}

\* proto::Device records of a generate-quirks run.
QuirkDevices ==
    [aaguid : {1, 2}, mds_link : {"Extend"}, display_name : {"Local"},
     quirks : SUBSET {"q1", "q2"}, skus : {<<>>}]

\* The feed and the enrichment data a generate-ds run may find on disk.
DsInputs ==
    UNION {[1..n -> FeedDevices] \X SeqsUpTo(DsDevices, MaxRecords - n) :
             n \in 0..MaxRecords}

\* ------------------------------------------------------------------------
\* device-catalog-tool: enrichment.rs
\* ------------------------------------------------------------------------

\* Faulty variant of Under: each record is put at the front of its key's Vec.
RECURSIVE UnderReversed(_, _)
UnderReversed(s, a) ==
    IF s = <<>> THEN <<>>
    ELSE IF Head(s).aaguid = a
    THEN Append(UnderReversed(Tail(s), a), Head(s))
    ELSE UnderReversed(Tail(s), a)

\* The records of s with the given aaguid, in the order of s: the Vec the
\* index loops push to under one key.
Under(s, a) == SelectSeq(s, LAMBDA d : d.aaguid = a)

\* enrich_map / fido_map: BTreeMap<Uuid, Vec<&record>>, one entry per aaguid
\* that occurs, the records in order of appearance.
IndexByAaguid(s) ==
    [a \in {s[i].aaguid : i \in DOMAIN s} |-> Under(s, a)]

\* The .filter(...) closure of aaguid_set.
AaguidFilter(aaguid) == aaguid \in HackKeys

\* Faulty variant of AaguidSet: every AAGUID the filter accepts is visited,
\* whether or not a record carries it.
AaguidSetOfFilter(fido_map, enrich_map) ==
    {a \in Aaguids : AaguidFilter(a)}

\* aaguid_set: the keys of both maps, chained, filtered, collected.
AaguidSet(fido_map, enrich_map) ==
    {a \in DOMAIN fido_map \cup DOMAIN enrich_map : AaguidFilter(a)}

\* sku.attestation_cas of every sku, flattened in order.
RECURSIVE FlatCas(_)
FlatCas(skus) ==
    IF skus = <<>> THEN <<>>
    ELSE Head(skus).attestation_cas \o FlatCas(Tail(skus))

\* The EnrichedDevice pushed for local record edev joined with feed entry fdev.
Linked(fdev, edev) ==
    IF edev.mds_link = "Extend"
    THEN [aaguid |-> fdev.aaguid, display_name |-> fdev.description,
          quirks |-> edev.quirks, ca |-> fdev.attestation_root_certificates]
    ELSE [aaguid |-> edev.aaguid, display_name |-> edev.display_name,
          quirks |-> edev.quirks, ca |-> fdev.attestation_root_certificates]

\* The EnrichedDevice pushed for a feed entry with no local record.
FromFeed(fdev) ==
    [aaguid |-> fdev.aaguid, display_name |-> fdev.description,
     quirks |-> {}, ca |-> fdev.attestation_root_certificates]

\* The EnrichedDevice pushed for a local record with no feed entry.
FromEnrichment(edev) ==
    [aaguid |-> edev.aaguid, display_name |-> edev.display_name,
     quirks |-> edev.quirks, ca |-> FlatCas(edev.skus)]

\* One iteration of `for aaguid in aaguid_set`: the match on
\* (fido_map.get, enrich_map.get).  [ok: FALSE for return Err(()), push: the
\* devices pushed]
Visit(fido_map, enrich_map, aaguid) ==
    LET hasF == aaguid \in DOMAIN fido_map
        hasE == aaguid \in DOMAIN enrich_map
    IN  IF hasF /\ hasE
        THEN IF Len(fido_map[aaguid]) # 1
             THEN [ok |-> FALSE, push |-> <<>>]
             ELSE [ok |-> TRUE,
                   push |-> [i \in 1..Len(enrich_map[aaguid]) |->
                              Linked(fido_map[aaguid][1], enrich_map[aaguid][i])]]
        ELSE IF hasF
        THEN IF Len(fido_map[aaguid]) # 1
             THEN [ok |-> FALSE, push |-> <<>>]
             ELSE [ok |-> TRUE, push |-> <<FromFeed(fido_map[aaguid][1])>>]
        ELSE IF hasE
        THEN [ok |-> TRUE,
              push |-> [i \in 1..Len(enrich_map[aaguid]) |->
                         FromEnrichment(enrich_map[aaguid][i])]]
        ELSE [ok |-> TRUE, push |-> <<>>]

\* try_from's for loop from the state (todo, devs) on: Ok with the devices
\* gathered, or Err at the first AAGUID whose visit fails.
RECURSIVE TryFromLoop(_, _, _, _)
TryFromLoop(fido_map, enrich_map, todo, devs) ==
    IF todo = {} THEN [ok |-> TRUE, devices |-> devs]
    ELSE LET aaguid == MinOf(todo)
             r == Visit(fido_map, enrich_map, aaguid)
         IN  IF r.ok
             THEN TryFromLoop(fido_map, enrich_map, todo \ {aaguid},
                              devs \o r.push)
             ELSE [ok |-> FALSE, devices |-> <<>>]

\* EnrichedMds::try_from((fido_mds, enrichment)) as a function of its inputs.
TryFrom(fido2, edevices) ==
    TryFromLoop(IndexByAaguid(fido2), IndexByAaguid(edevices),
                AaguidSet(IndexByAaguid(fido2), IndexByAaguid(edevices)), <<>>)

\* MdsSku of an EnrichedDevice.
SkuOf(dev) == [aaguid |-> dev.aaguid, display_name |-> dev.display_name]

\* Faulty variant of WorkMapPush: a SKU already listed under the CA is not repeated.
WorkMapPushDedup(m, ca, sku) ==
    IF ca \in DOMAIN m
    THEN IF sku \in Range(m[ca]) THEN m ELSE [m EXCEPT ![ca] = Append(@, sku)]
    ELSE MapInsert(m, ca, <<sku>>)

\* work_map.entry(ca).or_default().push(sku)
WorkMapPush(m, ca, sku) ==
    IF ca \in DOMAIN m
    THEN [m EXCEPT ![ca] = Append(@, sku)]
    ELSE MapInsert(m, ca, <<sku>>)

\* The inner loop `for ca in &dev.ca` from position j on.
RECURSIVE WorkMapCas(_, _, _)
WorkMapCas(m, dev, j) ==
    IF j > Len(dev.ca) THEN m
    ELSE WorkMapCas(WorkMapPush(m, dev.ca[j], SkuOf(dev)), dev, j + 1)

\* The outer loop `for dev in self.devices.iter()` from position i on.
RECURSIVE WorkMapDevs(_, _, _)
WorkMapDevs(m, devs, i) ==
    IF i > Len(devs) THEN m
    ELSE WorkMapDevs(WorkMapCas(m, devs[i], 1), devs, i + 1)

\* work_map once both loops are done.
WorkMap(devs) == WorkMapDevs(EmptyMap, devs, 1)

\* The orders HashMap::into_iter may yield the keys of m in.
KeyOrders(m) ==
    {o \in [1..Cardinality(DOMAIN m) -> DOMAIN m] :
        \A i, j \in DOMAIN o : o[i] = o[j] => i = j}

\* Faulty variant of QuirksExtend: a device without quirks still gets its entry.
QuirksExtendAlways(m, device) ==
    IF device.aaguid \in DOMAIN m
    THEN [m EXCEPT ![device.aaguid] = @ \cup device.quirks]
    ELSE MapInsert(m, device.aaguid, device.quirks)

\* The body of Into<Quirks>'s loop for one device: skipped when the device
\* has no quirks, else its quirks are added to its aaguid's entry.
QuirksExtend(m, device) ==
    IF device.quirks = {} THEN m
    ELSE IF device.aaguid \in DOMAIN m
    THEN [m EXCEPT ![device.aaguid] = @ \cup device.quirks]
    ELSE MapInsert(m, device.aaguid, device.quirks)

\* ------------------------------------------------------------------------
\* device-catalog-tool: main.rs
\* ------------------------------------------------------------------------

\* Enrichment::new returns Ok: every device.json was read and parsed.
LoadEnrichmentOk ==
    /\ pc = "start"
    /\ enrichment_data' = Some(disk_enrichment)
    /\ pc' = IF command = "GenerateDs" THEN "read_fido_mds" ELSE "into_quirks"
    /\ UNCHANGED <<command, disk_feed, disk_enrichment, fido_mds, aaguid_todo,
                   devices, enriched_mds, device_statements, quirks, q_pos,
                   output, regVars, fiVars>>

\* Enrichment::new returns Err (a folder is missing, a record is malformed):
\* main logs and returns.
LoadEnrichmentErr ==
    /\ pc = "start"
    /\ pc' = "returned_early"
    /\ UNCHANGED <<command, disk_feed, disk_enrichment, enrichment_data,
                   fido_mds, aaguid_todo, devices, enriched_mds,
                   device_statements, quirks, q_pos, output, regVars, fiVars>>

\* read_fido_mds returns Ok.
ReadFidoMdsOk ==
    /\ pc = "read_fido_mds"
    /\ fido_mds' = Some(disk_feed)
    /\ pc' = "try_from"
    /\ UNCHANGED <<command, disk_feed, disk_enrichment, enrichment_data,
                   aaguid_todo, devices, enriched_mds, device_statements,
                   quirks, q_pos, output, regVars, fiVars>>

\* read_fido_mds returns Err (file or parse error): main logs and returns.
ReadFidoMdsErr ==
    /\ pc = "read_fido_mds"
    /\ pc' = "returned_early"
    /\ UNCHANGED <<command, disk_feed, disk_enrichment, enrichment_data,
                   fido_mds, aaguid_todo, devices, enriched_mds,
                   device_statements, quirks, q_pos, output, regVars, fiVars>>

\* EnrichedMds::try_from up to its for loop: both indexes and aaguid_set.
TryFromBegin ==
    /\ pc = "try_from"
    /\ aaguid_todo' = AaguidSet(IndexByAaguid(fido_mds[1]),
                                IndexByAaguid(enrichment_data[1]))
    /\ devices' = <<>>
    /\ pc' = "try_from_loop"
    /\ UNCHANGED <<command, disk_feed, disk_enrichment, enrichment_data,
                   fido_mds, enriched_mds, device_statements, quirks, q_pos,
                   output, regVars, fiVars>>

\* One iteration of try_from's for loop, on the least AAGUID not yet
\* visited; on a duplicated feed AAGUID try_from returns Err(()) and its
\* `devices` vector is dropped.
TryFromStep ==
    /\ pc = "try_from_loop"
    /\ aaguid_todo # {}
    /\ LET aaguid == MinOf(aaguid_todo)
           r == Visit(IndexByAaguid(fido_mds[1]),
                      IndexByAaguid(enrichment_data[1]), aaguid)
       IN  IF r.ok
           THEN /\ devices' = devices \o r.push
                /\ aaguid_todo' = aaguid_todo \ {aaguid}
                /\ enriched_mds' = enriched_mds
                /\ pc' = "try_from_loop"
           ELSE /\ devices' = <<>>
                /\ aaguid_todo' = aaguid_todo
                /\ enriched_mds' = Some([ok |-> FALSE, devices |-> <<>>])
                /\ pc' = "try_from_returned"
    /\ UNCHANGED <<command, disk_feed, disk_enrichment, enrichment_data,
                   fido_mds, device_statements, quirks, q_pos, output,
                   regVars, fiVars>>

\* The loop is over: try_from returns Ok(EnrichedMds { devices }).
TryFromReturn ==
    /\ pc = "try_from_loop"
    /\ aaguid_todo = {}
    /\ enriched_mds' = Some([ok |-> TRUE, devices |-> devices])
    /\ pc' = "try_from_returned"
    /\ UNCHANGED <<command, disk_feed, disk_enrichment, enrichment_data,
                   fido_mds, aaguid_todo, devices, device_statements, quirks,
                   q_pos, output, regVars, fiVars>>

\* Faulty variant of MatchEnrichedErr: main goes on with whatever try_from had
\* gathered instead of returning.
MatchEnrichedErrGoesOn ==
    /\ pc = "try_from_returned"
    /\ ~enriched_mds[1].ok
    /\ device_statements' = Some(<<>>)
    /\ pc' = "write_output"
    /\ UNCHANGED <<command, disk_feed, disk_enrichment, enrichment_data,
                   fido_mds, aaguid_todo, devices, enriched_mds, quirks, q_pos,
                   output, regVars, fiVars>>

\* main's match on try_from's result, Err arm: log and return.
MatchEnrichedErr ==
    /\ pc = "try_from_returned"
    /\ ~enriched_mds[1].ok
    /\ pc' = "returned_early"
    /\ UNCHANGED <<command, disk_feed, disk_enrichment, enrichment_data,
                   fido_mds, aaguid_todo, devices, enriched_mds,
                   device_statements, quirks, q_pos, output, regVars, fiVars>>

\* work_map.into_iter().map(|(ca, skus)| MdsAuthority { ca, skus }) when the
\* HashMap yields its keys in the order o.
Authorities(work_map, o) ==
    [i \in DOMAIN o |-> [ca |-> o[i], skus |-> work_map[o[i]]]]

\* .collect() into Mds: the catalog is the list of the Authority records, in
\* the order the iterator yields them.
MdsCollect(authorities) ==
    [i \in 1..Len(authorities) |-> authorities[i]]

\* main's match, Ok arm, then Into<Mds>: one Authority per key of work_map,
\* in the order HashMap::into_iter yields them.
IntoMds ==
    /\ pc = "try_from_returned"
    /\ enriched_mds[1].ok
    /\ LET work_map == WorkMap(enriched_mds[1].devices) IN
       \E o \in KeyOrders(work_map) :
          device_statements' = Some(MdsCollect(Authorities(work_map, o)))
    /\ pc' = "write_output"
    /\ UNCHANGED <<command, disk_feed, disk_enrichment, enrichment_data,
                   fido_mds, aaguid_todo, devices, enriched_mds, quirks, q_pos,
                   output, regVars, fiVars>>

\* write_output serialises the catalog into the output file.
WriteDsOk ==
    /\ pc = "write_output"
    /\ command = "GenerateDs"
    /\ output' = Some(device_statements[1])
    /\ pc' = "returned"
    /\ UNCHANGED <<command, disk_feed, disk_enrichment, enrichment_data,
                   fido_mds, aaguid_todo, devices, enriched_mds,
                   device_statements, quirks, q_pos, regVars, fiVars>>

\* write_output cannot create the output file: it logs and returns.
WriteErr ==
    /\ pc = "write_output"
    /\ pc' = "returned"
    /\ UNCHANGED <<command, disk_feed, disk_enrichment, enrichment_data,
                   fido_mds, aaguid_todo, devices, enriched_mds,
                   device_statements, quirks, q_pos, output, regVars, fiVars>>

\* One iteration of Into<Quirks>'s `for device in self.devices.iter()`.
IntoQuirksStep ==
    /\ pc = "into_quirks"
    /\ q_pos < Len(enrichment_data[1])
    /\ quirks' = QuirksExtend(quirks, enrichment_data[1][q_pos + 1])
    /\ q_pos' = q_pos + 1
    /\ UNCHANGED <<command, disk_feed, disk_enrichment, pc, enrichment_data,
                   fido_mds, aaguid_todo, devices, enriched_mds,
                   device_statements, output, regVars, fiVars>>

\* Into<Quirks> returns the map.
IntoQuirksReturn ==
    /\ pc = "into_quirks"
    /\ q_pos = Len(enrichment_data[1])
    /\ pc' = "write_output"
    /\ UNCHANGED <<command, disk_feed, disk_enrichment, enrichment_data,
                   fido_mds, aaguid_todo, devices, enriched_mds,
                   device_statements, quirks, q_pos, output, regVars, fiVars>>

\* write_output serialises the quirks map into the output file.
WriteQuirksOk ==
    /\ pc = "write_output"
    /\ command = "GenerateQuirks"
    /\ output' = Some(quirks)
    /\ pc' = "returned"
    /\ UNCHANGED <<command, disk_feed, disk_enrichment, enrichment_data,
                   fido_mds, aaguid_todo, devices, enriched_mds,
                   device_statements, quirks, q_pos, regVars, fiVars>>

\* main before its match on opt.commands: nothing loaded, nothing written.
ToolStart ==
    /\ enrichment_data = None
    /\ fido_mds = None
    /\ aaguid_todo = {}
    /\ devices = <<>>
    /\ enriched_mds = None
    /\ device_statements = None
    /\ quirks = EmptyMap
    /\ q_pos = 0
    /\ output = None

\* The tool is not run.
ToolIdle ==
    /\ command = "none"
    /\ disk_feed = <<>>
    /\ disk_enrichment = <<>>
    /\ pc = "idle"
    /\ ToolStart

\* ------------------------------------------------------------------------
\* Specifications
\* ------------------------------------------------------------------------

\* A registry that starts empty and takes any sequence of insert calls.
InitRegistry == RegistryInit /\ FromIterIdle /\ ToolIdle
NextRegistry == InsertAny
SpecRegistry == InitRegistry /\ [][NextRegistry]_vars

\* A list that is built by default(), by either try_from or by from_iter, and
\* then takes any sequence of insert calls (and may be built anew).
InitRegistryBuilt == RegistryInit /\ FromIterIdle /\ ToolIdle
NextRegistryBuilt == InsertAny \/ BuildFromCa \/ BuildFromPem \/ BuildFromIter
SpecRegistryBuilt == InitRegistryBuilt /\ [][NextRegistryBuilt]_vars

\* One call of from_iter on any stream of at most MaxPairs pairs.
InitFromIter == RegistryInit /\ FromIterInit /\ ToolIdle
NextFromIter == FromIterStep \/ FromIterReturn
SpecFromIter == InitFromIter /\ [][NextFromIter]_vars

\* One generate-ds run of main on any feed and enrichment data of at most
\* MaxRecords records.
InitGenerateDs ==
    /\ RegistryInit /\ FromIterIdle
    /\ command = "GenerateDs"
    /\ \E input \in DsInputs :
          /\ disk_feed = input[1]
          /\ disk_enrichment = input[2]
    /\ pc = "start"
    /\ ToolStart
NextGenerateDs ==
    \/ LoadEnrichmentOk \/ LoadEnrichmentErr
    \/ ReadFidoMdsOk \/ ReadFidoMdsErr
    \/ TryFromBegin \/ TryFromStep \/ TryFromReturn
    \/ MatchEnrichedErr \/ IntoMds
    \/ WriteDsOk \/ WriteErr
SpecGenerateDs == InitGenerateDs /\ [][NextGenerateDs]_vars

\* One generate-quirks run of main on any enrichment data of at most
\* MaxQuirkDevices records.
InitGenerateQuirks ==
    /\ RegistryInit /\ FromIterIdle
    /\ command = "GenerateQuirks"
    /\ disk_feed = <<>>
    /\ disk_enrichment \in SeqsUpTo(QuirkDevices, MaxQuirkDevices)
    /\ pc = "start"
    /\ ToolStart
NextGenerateQuirks ==
    \/ LoadEnrichmentOk \/ LoadEnrichmentErr
    \/ IntoQuirksStep \/ IntoQuirksReturn
    \/ WriteQuirksOk \/ WriteErr
SpecGenerateQuirks == InitGenerateQuirks /\ [][NextGenerateQuirks]_vars

\* ------------------------------------------------------------------------
\* Claims about the registry
\* ------------------------------------------------------------------------

\* The key a certificate is filed under: SHA-256 of its DER encoding.
KidOf(ca) == Sha256Table[ca.der]

\* C3: a successful insert returns the entry previously stored under the
\* CA's digest (None when there was none), leaves exactly the inserted CA
\* with exactly the inserted allow-list under that key, and changes no other
\* entry.
C3_RegisterReplaces ==
    [][(last'.op = "insert" /\ last'.ok) =>
         LET a == last'.arg[1]
             k == KidOf(a.ca)
         IN  /\ k \in DOMAIN cas => last'.ret = Some(cas[k])
             /\ k \notin DOMAIN cas => last'.ret = None
             /\ DOMAIN cas' = DOMAIN cas \cup {k}
             /\ cas'[k] = a
             /\ \A j \in DOMAIN cas \ {k} : cas'[j] = cas[j]]_vars

\* C3 witness: an insert displaced an entry whose allow-list had an AAGUID
\* the inserted CA does not list, and the entry is now the inserted CA.
C3_Witness ==
    /\ last.op = "insert" /\ last.ok
    /\ last.ret # None
    /\ \E u \in last.ret[1].aaguids : u \notin last.arg[1].aaguids
    /\ last.ret[1].ca # last.arg[1].ca
    /\ cas[KidOf(last.arg[1].ca)] = last.arg[1]
    /\ Cardinality(DOMAIN cas) = 2

\* C7: an insert of a CA whose digest cannot be computed returns the error
\* and leaves the map as it was.
C7_FailedInsertNoOp ==
    [][(last'.op = "insert" /\ last'.arg[1].ca.der \in Undigestible) =>
         (~last'.ok /\ last'.ret = None /\ cas' = cas)]_vars

\* C7 witness: a failed insert on a registry that holds entries.
C7_Witness ==
    /\ last.op = "insert" /\ ~last.ok
    /\ last.arg[1].ca.der \in Undigestible
    /\ cas # EmptyMap

\* The positions of stream s, among the first n, whose certificate has key k.
PositionsOf(s, n, k) == {i \in 1..n : KidOf(s[i][1]) = k}

\* What C4 says of the map m built from the first n pairs of s.
MergedFromPrefix(m, s, n) ==
    /\ DOMAIN m = {KidOf(s[i][1]) : i \in 1..n}
    /\ \A k \in DOMAIN m :
         /\ m[k].ca = s[MinOf(PositionsOf(s, n, k))][1]
         /\ m[k].aaguids = {s[i][2] : i \in PositionsOf(s, n, k)}

\* C4: the list from_iter returns has exactly one entry per distinct digest
\* of the stream, holding the certificate of the first pair with that digest
\* and as allow-list exactly the AAGUIDs paired with that digest; the same
\* holds of the local map for the pairs consumed so far.
C4_MergeFromStream ==
    fi_pc \in {"loop", "done"} => MergedFromPrefix(fi_cas, iter, fi_pos)

\* C4 witness: a returned list where a later pair carried another X509
\* object with the digest of an earlier pair, and a new AAGUID.
C4_Witness ==
    /\ fi_pc = "done"
    /\ \E i, j \in DOMAIN iter :
         /\ i < j
         /\ KidOf(iter[i][1]) = KidOf(iter[j][1])
         /\ iter[i][1] # iter[j][1]
         /\ iter[i][2] # iter[j][2]
    /\ Cardinality(DOMAIN fi_cas) = 2

\* C8 (as claimed): from_iter never panics, whatever the stream holds.
C8_MergeNeverPanics == fi_pc # "panicked"

\* The permutations of 1..n.
Perms(n) == {f \in [1..n -> 1..n] : \A i, j \in 1..n : f[i] = f[j] => i = j}

\* The same registry: the same keys, and under each key a certificate with
\* the same encoding and the same allow-list.
SameRegistry(a, b) ==
    /\ DOMAIN a = DOMAIN b
    /\ \A k \in DOMAIN a :
         /\ a[k].ca.der = b[k].ca.der
         /\ a[k].aaguids = b[k].aaguids

SameOutcome(r, q) == r.ok = q.ok /\ (r.ok => SameRegistry(r.cas, q.cas))

\* Stream s with its i-th pair fed a second time, right after the first.
FedTwice(s, i) == SubSeq(s, 1, i) \o SubSeq(s, i, Len(s))

\* C10: from_iter on any permutation of the stream, and on the stream with
\* one pair fed twice, ends as it does on the stream itself: with the same
\* registry as the one returned.
C10_CommutativeMerge ==
    fi_pc \in {"done", "panicked"} =>
      LET mine == [ok |-> fi_pc = "done", cas |-> fi_cas] IN
      /\ \A f \in Perms(Len(iter)) :
           SameOutcome(FromIter([i \in 1..Len(iter) |-> iter[f[i]]]), mine)
      /\ \A i \in DOMAIN iter : SameOutcome(FromIter(FedTwice(iter, i)), mine)

\* C10 witness: a returned registry built from a stream in which two pairs
\* with the same digest carry different AAGUIDs, beside another digest.
C10_Witness ==
    /\ fi_pc = "done"
    /\ Len(iter) = MaxPairs
    /\ \E i, j \in DOMAIN iter :
         /\ KidOf(iter[i][1]) = KidOf(iter[j][1])
         /\ iter[i][2] # iter[j][2]
    /\ Cardinality(DOMAIN fi_cas) = 2

\* ------------------------------------------------------------------------
\* Claims about the device catalog tool
\* ------------------------------------------------------------------------

\* The AAGUIDs that occur in a list of records.
KeysOf(s) == {s[i].aaguid : i \in DOMAIN s}

\* C1 (as claimed): whenever the feed holds more than one entry under some
\* AAGUID, whichever it is, try_from returns Err and no device list.
C1_DuplicateFeedAlwaysFails ==
    (enriched_mds # None /\ \E a \in Aaguids : Len(Under(fido_mds[1], a)) > 1)
      => (~enriched_mds[1].ok /\ enriched_mds[1].devices = <<>>)

\* C2 (as claimed): the loop of try_from sets out to visit every AAGUID of
\* the feed and of the enrichment data, and a successful try_from returns
\* at least one device for each of them.
C2_JoinComplete ==
    /\ (pc = "try_from_loop" /\ devices = <<>>) =>
         aaguid_todo = KeysOf(fido_mds[1]) \cup KeysOf(enrichment_data[1])
    /\ (enriched_mds # None /\ enriched_mds[1].ok) =>
         \A a \in KeysOf(fido_mds[1]) \cup KeysOf(enrichment_data[1]) :
            \E i \in DOMAIN enriched_mds[1].devices :
               enriched_mds[1].devices[i].aaguid = a

\* The (device, position) pairs of devs whose CA is ca.
Occurrences(devs, ca) ==
    UNION {{<<i, j>> : j \in {j \in DOMAIN devs[i].ca : devs[i].ca[j] = ca}} :
             i \in DOMAIN devs}

\* The CA values that occur in some device's CA list.
CasIn(devs) == UNION {Range(devs[i].ca) : i \in DOMAIN devs}

\* C5: in the projected catalog every CA of some device's CA list is the ca
\* of exactly one Authority, there is no other Authority, and an Authority
\* lists as many SKUs as there are occurrences of its CA in the devices' CA
\* lists.
C5_AuthorityProjection ==
    device_statements # None =>
      LET devs == enriched_mds[1].devices
          mds == device_statements[1]
      IN  /\ \A ca \in CasIn(devs) :
                /\ Cardinality({i \in DOMAIN mds : mds[i].ca = ca}) = 1
                /\ \A i \in DOMAIN mds :
                      mds[i].ca = ca =>
                        Len(mds[i].skus) = Cardinality(Occurrences(devs, ca))
          /\ \A i \in DOMAIN mds : mds[i].ca \in CasIn(devs)

\* C5 witness: a catalog projected from a device without any CA and a device
\* that lists one CA twice, whose Authority repeats the SKU.
C5_Witness ==
    /\ device_statements # None
    /\ \E i \in DOMAIN enriched_mds[1].devices :
          enriched_mds[1].devices[i].ca = <<>>
    /\ \E i \in DOMAIN enriched_mds[1].devices :
          enriched_mds[1].devices[i].ca = <<"C2", "C2">>
    /\ \E i \in DOMAIN device_statements[1] :
          /\ Len(device_statements[1][i].skus) >= 2
          /\ device_statements[1][i].skus[1] = device_statements[1][i].skus[2]

\* The devices Into<Quirks> has consumed.
Consumed == SubSeq(enrichment_data[1], 1, q_pos)

\* C6 (as claimed): once the quirks map is built, the AAGUID of a device
\* whose quirk set is empty is not a key of it, and no key is bound to an
\* empty set.
C6_EmptyQuirksAaguidNeverKey ==
    (command = "GenerateQuirks" /\ pc \in {"write_output", "returned"}) =>
      /\ \A i \in DOMAIN enrichment_data[1] :
            enrichment_data[1][i].quirks = {} =>
              enrichment_data[1][i].aaguid \notin DOMAIN quirks
      /\ \A a \in DOMAIN quirks : quirks[a] # {}

\* C6 (amended): an AAGUID is a key of the quirks map exactly when some
\* device with that AAGUID has a non-empty quirk set, so the AAGUID of a
\* device without quirks is a key only when another record of the same AAGUID
\* has quirks; and no key is bound to an empty set. It holds of the map
\* after every iteration, for the devices consumed so far.
C6_QuirkOmission ==
    (command = "GenerateQuirks" /\ enrichment_data # None) =>
      /\ \A a \in Aaguids :
            a \in DOMAIN quirks <=>
              \E i \in DOMAIN Consumed : /\ Consumed[i].aaguid = a
                                         /\ Consumed[i].quirks # {}
      /\ \A a \in DOMAIN quirks : quirks[a] # {}

\* C6 witness: the map is built, a device without quirks was consumed whose
\* AAGUID is no key, and another whose AAGUID is a key.
C6_Witness ==
    /\ command = "GenerateQuirks" /\ pc = "write_output"
    /\ \E i, j \in DOMAIN enrichment_data[1] :
          /\ enrichment_data[1][i].quirks = {}
          /\ enrichment_data[1][i].aaguid \notin DOMAIN quirks
          /\ enrichment_data[1][j].quirks = {}
          /\ enrichment_data[1][j].aaguid \in DOMAIN quirks

\* C9: main reads the feed only with the enrichment data loaded, reconciles
\* only with both loaded, and reaches write_output only when try_from
\* returned Ok; a run that returned early wrote nothing; and a try_from that
\* failed returned no devices, its `devices` vector being dropped.
C9_NoPartialCatalog ==
    /\ fido_mds # None => enrichment_data # None
    /\ pc \in {"try_from_loop", "try_from_returned"} =>
         (enrichment_data # None /\ fido_mds # None)
    /\ enriched_mds # None => (enrichment_data # None /\ fido_mds # None)
    /\ (pc \in {"write_output", "returned"} \/ output # None
          \/ device_statements # None) =>
         (enriched_mds # None /\ enriched_mds[1].ok)
    /\ pc = "returned_early" => (output = None /\ device_statements = None)
    /\ (enriched_mds # None /\ ~enriched_mds[1].ok) =>
         /\ enriched_mds[1].devices = <<>>
         /\ devices = <<>>
         /\ pc \in {"try_from_returned", "returned_early"}

\* C9 witness: a run that returned early because try_from failed on AAGUID 3
\* after it had pushed devices for AAGUID 2.
C9_Witness ==
    /\ pc = "returned_early"
    /\ enriched_mds # None /\ ~enriched_mds[1].ok
    /\ aaguid_todo = {3}
    /\ 2 \in KeysOf(fido_mds[1]) \cup KeysOf(enrichment_data[1])
    /\ output = None

\* ------------------------------------------------------------------------
\* Claims about the devices try_from emits
\* ------------------------------------------------------------------------

\* The records of s filed under AAGUID a, in the order of s.
RecordsOf(s, a) == SelectSeq(s, LAMBDA r : r.aaguid = a)

\* The device C11 expects for local record e joined with feed entry f.
ExpectedLinked(f, e) ==
    [aaguid |-> IF e.mds_link = "Clone" THEN e.aaguid ELSE f.aaguid,
     display_name |-> IF e.mds_link = "Clone" THEN e.display_name
                      ELSE f.description,
     quirks |-> e.quirks,
     ca |-> f.attestation_root_certificates]

\* C11 (as claimed): of a successful reconciliation, for every AAGUID that
\* has local records and exactly one feed entry, the devices of that AAGUID
\* are one per local record, in order, each with AAGUID and display name
\* from the feed entry under Extend and from the local record under Clone,
\* the local record's quirks and the feed entry's certificate list.
C11_BothPresentSourcing ==
    (enriched_mds # None /\ enriched_mds[1].ok) =>
      \A a \in Aaguids :
        LET fs == RecordsOf(fido_mds[1], a)
            es == RecordsOf(enrichment_data[1], a)
            got == RecordsOf(enriched_mds[1].devices, a)
        IN  (Len(fs) = 1 /\ Len(es) >= 1) =>
              /\ Len(got) = Len(es)
              /\ \A i \in DOMAIN es : got[i] = ExpectedLinked(fs[1], es[i])

\* The CA lists of skus[i..], one after the other.
RECURSIVE CasFromSku(_, _)
CasFromSku(skus, i) ==
    IF i > Len(skus) THEN <<>>
    ELSE skus[i].attestation_cas \o CasFromSku(skus, i + 1)

\* C12 (as claimed): of a successful reconciliation, for every AAGUID that
\* has local records and no feed entry, the devices of that AAGUID are one
\* per local record, in order, each with the record's AAGUID, display name
\* and quirks and the CA lists of its SKUs concatenated in SKU order,
\* whatever the record's link policy.
C12_EnrichmentOnly ==
    (enriched_mds # None /\ enriched_mds[1].ok) =>
      \A a \in Aaguids :
        LET fs == RecordsOf(fido_mds[1], a)
            es == RecordsOf(enrichment_data[1], a)
            got == RecordsOf(enriched_mds[1].devices, a)
        IN  (Len(fs) = 0 /\ Len(es) >= 1) =>
              /\ Len(got) = Len(es)
              /\ \A i \in DOMAIN es :
                    got[i] = [aaguid |-> a,
                              display_name |-> es[i].display_name,
                              quirks |-> es[i].quirks,
                              ca |-> CasFromSku(es[i].skus, 1)]

\* C13: in the device list of a successful reconciliation the AAGUIDs never
\* decrease, and the devices of an AAGUID that has local records follow the
\* order of those records in the enrichment data: the i-th device carries
\* the i-th record's quirks, and the i-th record's display name unless that
\* record extends a feed entry.
C13_OutputOrdering ==
    (enriched_mds # None /\ enriched_mds[1].ok) =>
      LET devs == enriched_mds[1].devices IN
      /\ \A i, j \in DOMAIN devs : i < j => devs[i].aaguid <= devs[j].aaguid
      /\ \A a \in Aaguids :
           LET fs == RecordsOf(fido_mds[1], a)
               es == RecordsOf(enrichment_data[1], a)
               got == RecordsOf(devs, a)
           IN  (got # <<>> /\ es # <<>>) =>
                 /\ Len(got) = Len(es)
                 /\ \A i \in DOMAIN es :
                       /\ got[i].quirks = es[i].quirks
                       /\ got[i].display_name =
                            IF fs # <<>> /\ es[i].mds_link = "Extend"
                            THEN fs[1].description
                            ELSE es[i].display_name

\* C13 witness: a successful reconciliation whose list holds a device of
\* AAGUID 2 before two different devices of AAGUID 3, emitted for two
\* different local records.
C13_Witness ==
    /\ enriched_mds # None /\ enriched_mds[1].ok
    /\ LET devs == enriched_mds[1].devices
           es == RecordsOf(enrichment_data[1], 3)
       IN  /\ Len(devs) = 3
           /\ devs[1].aaguid = 2
           /\ devs[2].aaguid = 3
           /\ devs[2] # devs[3]
           /\ Len(es) = 2
           /\ es[1] # es[2]

\* ------------------------------------------------------------------------
\* Claims about a whole run
\* ------------------------------------------------------------------------

\* The catalogs a run may build from a feed and enrichment data on which
\* try_from succeeds: one per order HashMap::into_iter may yield.
Catalogs(fido2, edevices) ==
    LET work_map == WorkMap(TryFrom(fido2, edevices).devices) IN
    {MdsCollect(Authorities(work_map, o)) : o \in KeyOrders(work_map)}

\* C14 (as claimed): the reconciliation of a run is the one any run on the
\* same feed and enrichment data computes, and the catalog a run builds is
\* the catalog any run on the same feed and enrichment data builds.
C14_RunDeterministic ==
    /\ enriched_mds # None =>
         enriched_mds[1] = TryFrom(fido_mds[1], enrichment_data[1])
    /\ device_statements # None =>
         \A c \in Catalogs(fido_mds[1], enrichment_data[1]) :
            c = device_statements[1]

\* The reconciliation half of C14, which holds.
C14_ReconciliationDeterministic ==
    enriched_mds # None =>
      enriched_mds[1] = TryFrom(fido_mds[1], enrichment_data[1])

\* ------------------------------------------------------------------------
\* Claims about the registry's keys
\* ------------------------------------------------------------------------

\* C15: every key of the list is the SHA-256 digest of the certificate
\* stored under it (which therefore can be digested), no two entries hold
\* the same certificate, and every entry of a list from_iter has just
\* returned has a non-empty allow-list.
C15_KeyInvariant ==
    /\ \A k \in DOMAIN cas :
          /\ cas[k].ca.der \notin Undigestible
          /\ k = Sha256Table[cas[k].ca.der]
    /\ \A j, k \in DOMAIN cas : cas[j].ca.der = cas[k].ca.der => j = k
    /\ (last.op = "from_iter" /\ last.ok) =>
          \A k \in DOMAIN cas : cas[k].aaguids # {}

\* C15 witness: a list of two entries that from_iter built took a failed
\* insert; one more witness state is the list from_iter returned itself.
C15_Witness ==
    /\ last.op = "insert" /\ ~last.ok
    /\ Cardinality(DOMAIN cas) = 2
    /\ \A k \in DOMAIN cas : Cardinality(cas[k].aaguids) = 1 /\ cas[k].ca.obj = 2

\* ------------------------------------------------------------------------
\* Claims about the join key
\* ------------------------------------------------------------------------

\* C16: in every iteration of try_from's loop, on the key k, (a) k is a key
\* of the feed index or of the enrichment index, so the `neither present`
\* arm is not taken; (b) every device the iteration pushes has aaguid = k;
\* (c) every record either index holds under k has aaguid = k, so a local
\* record's AAGUID equals that of the feed entry it is joined with; (d) for
\* every such pair Extend and Clone linkage give the same AAGUID.
C16_StepEmitsKey ==
    (pc = "try_from_loop" /\ aaguid_todo # {}) =>
      LET k == MinOf(aaguid_todo)
          fido_map == IndexByAaguid(fido_mds[1])
          enrich_map == IndexByAaguid(enrichment_data[1])
          fs == IF k \in DOMAIN fido_map THEN fido_map[k] ELSE <<>>
          es == IF k \in DOMAIN enrich_map THEN enrich_map[k] ELSE <<>>
      IN  /\ k \in DOMAIN fido_map \cup DOMAIN enrich_map
          /\ \A i \in (Len(devices) + 1)..Len(devices') :
                devices'[i].aaguid = k
          /\ \A i \in DOMAIN fs : fs[i].aaguid = k
          /\ \A i \in DOMAIN es : es[i].aaguid = k
          /\ \A i \in DOMAIN fs : \A j \in DOMAIN es :
                /\ es[j].aaguid = fs[i].aaguid
                /\ Linked(fs[i], [es[j] EXCEPT !.mds_link = "Clone"]).aaguid
                     = Linked(fs[i], [es[j] EXCEPT !.mds_link = "Extend"]).aaguid

C16_EmittedAaguidIsKey == [][C16_StepEmitsKey]_vars

\* C16 witness: the loop has pushed the device of a Clone record joined
\* with the feed entry of its AAGUID, and goes on with a further key.
C16_Witness ==
    /\ pc = "try_from_loop" /\ aaguid_todo # {} /\ devices # <<>>
    /\ \E i \in DOMAIN fido_mds[1] : \E j \in DOMAIN enrichment_data[1] :
          LET f == fido_mds[1][i]  e == enrichment_data[1][j] IN
          /\ e.mds_link = "Clone" /\ e.aaguid = f.aaguid
          /\ devices[1] = ExpectedLinked(f, e)
          /\ devices[1].aaguid # MinOf(aaguid_todo)
====
